---------------------------- MODULE Spec2Model ----------------------------
(***************************************************************************)
(* Model of src/api_certificado.py: one request to                        *)
(* obter_faturamento_certificado, from month validation through the        *)
(* certificate login (fazer_login_certificado), the pagination loop        *)
(* (buscar_notas / processar_pagina), the cleanup of the temporary         *)
(* certificate material (limpar_arquivos_temporarios) and the mapping of   *)
(* failures to HTTP statuses.                                              *)
(*                                                                         *)
(* Texts are sequences of one-character strings, so that int(), zfill(),   *)
(* re.search(), str.replace() and float() are computed, not assumed.       *)
(* Amounts are integers in thousandths (1.234,56 is 1234560).              *)
(* Messages are sequences of phrases; `x in str(e)` is phrase membership.  *)
(* Accented letters of the source's literals are written unaccented.       *)
(***************************************************************************)
EXTENDS Integers, Sequences, FiniteSets, TLC

(* ------------------------------ bounds -------------------------------- *)

\* The portal's listing has at most MaxPages pages.
MaxPages == 2

\* A page's table body has at most MaxRows rows.
MaxRows == 2

\* A table body followed row by row has at most MaxLinhas rows.
MaxLinhas == 3

\* At most MaxThreads requests are handled at the same time.
MaxThreads == 2

(* ------------------------- program constants -------------------------- *)

\* response.status_code != 200 (line 206)
HTTP_OK == 200

\* len(cnpj_limpo) == 14 (line 95)
CNPJ_LEN == 14

\* HTTPException(status_code=400, ...) (line 256)
STATUS_MES_INVALIDO == 400

\* HTTPException(status_code=401, ...) (line 291)
STATUS_UNAUTHORIZED == 401

\* HTTPException(status_code=500, ...) (line 292)
STATUS_SERVER_ERROR == 500

\* Python None, as a value comparable with texts and paths.
Nada == <<"None">>

(* ------------------------------- texts -------------------------------- *)

DigitChars == <<"0", "1", "2", "3", "4", "5", "6", "7", "8", "9">>

IsDigit(c) == \E k \in 1..10 : DigitChars[k] = c

DigitVal(c) == (CHOOSE k \in 1..10 : DigitChars[k] = c) - 1

AllDigits(s) == \A k \in 1..Len(s) : IsDigit(s[k])

RECURSIVE DigitsToNat(_)
\* The number a non-empty digit text denotes.
DigitsToNat(s) ==
    IF s = <<>> THEN 0
    ELSE 10 * DigitsToNat(SubSeq(s, 1, Len(s) - 1)) + DigitVal(s[Len(s)])

RECURSIVE NatToDigits(_)
\* str(n) for n >= 0.
NatToDigits(n) ==
    IF n < 10 THEN <<DigitChars[n + 1]>>
    ELSE NatToDigits(n \div 10) \o <<DigitChars[(n % 10) + 1]>>

RECURSIVE Strip(_)
\* str.strip(): leading and trailing blanks removed.
Strip(s) ==
    IF s = <<>> THEN s
    ELSE IF s[1] = " " THEN Strip(Tail(s))
    ELSE IF s[Len(s)] = " " THEN Strip(SubSeq(s, 1, Len(s) - 1))
    ELSE s

\* int(text): blanks stripped, an optional sign, then one or more digits;
\* anything else raises ValueError (ok = FALSE).
py_int(text) ==
    LET s    == Strip(text)
        neg  == s # <<>> /\ s[1] = "-"
        pos  == s # <<>> /\ s[1] = "+"
        body == IF neg \/ pos THEN Tail(s) ELSE s
    IN  IF body # <<>> /\ AllDigits(body)
        THEN [ok |-> TRUE,
              val |-> IF neg THEN 0 - DigitsToNat(body) ELSE DigitsToNat(body)]
        ELSE [ok |-> FALSE, val |-> 0]

\* str(n).zfill(2) for n >= 0.
zfill2(n) ==
    LET s == NatToDigits(n)
    IN  IF Len(s) < 2 THEN <<"0">> \o s ELSE s

\* text.replace(a, ''): every occurrence of the character removed.
RemoveChar(s, a) == SelectSeq(s, LAMBDA c : c # a)

RECURSIVE ReplaceChar(_, _, _)
\* text.replace(a, b) for single characters.
ReplaceChar(s, a, b) ==
    IF s = <<>> THEN <<>>
    ELSE <<IF Head(s) = a THEN b ELSE Head(s)>> \o ReplaceChar(Tail(s), a, b)

\* The positions at which r'(\d{2})/(\d{4})' matches in s.
CompetenciaMatches(s) ==
    {k \in 1..(Len(s) - 6) :
        /\ IsDigit(s[k]) /\ IsDigit(s[k + 1])
        /\ s[k + 2] = "/"
        /\ \A j \in 3..6 : IsDigit(s[k + j])}

Min(S) == CHOOSE x \in S : \A y \in S : x <= y

\* re.search(r'(\d{2})/(\d{4})', s): the leftmost match, or no match.
re_search_competencia(s) ==
    LET ms == CompetenciaMatches(s)
    IN  IF ms = {} THEN [ok |-> FALSE, mes |-> <<>>, ano |-> <<>>]
        ELSE LET k == Min(ms)
             IN  [ok |-> TRUE,
                  mes |-> SubSeq(s, k, k + 1),
                  ano |-> SubSeq(s, k + 3, k + 6)]

\* Index of the only "." of s, or 0 when s has none.
PointAt(s) ==
    IF \E k \in 1..Len(s) : s[k] = "."
    THEN CHOOSE k \in 1..Len(s) : s[k] = "."
    ELSE 0

Pad3(d) ==
    IF Len(d) = 0 THEN <<"0", "0", "0">>
    ELSE IF Len(d) = 1 THEN d \o <<"0", "0">>
    ELSE IF Len(d) = 2 THEN d \o <<"0">>
    ELSE d

\* float(text) for decimal literals of at most three fraction digits:
\* blanks stripped, an optional sign, digits with at most one point and at
\* least one digit; anything else raises ValueError (ok = FALSE).  The
\* value is in thousandths.
py_float(text) ==
    LET s    == Strip(text)
        neg  == s # <<>> /\ s[1] = "-"
        pos  == s # <<>> /\ s[1] = "+"
        body == IF neg \/ pos THEN Tail(s) ELSE s
        p    == PointAt(body)
        ip   == IF p = 0 THEN body ELSE SubSeq(body, 1, p - 1)
        fp   == IF p = 0 THEN <<>> ELSE SubSeq(body, p + 1, Len(body))
        good == /\ AllDigits(ip) /\ AllDigits(fp)
                /\ Len(ip) + Len(fp) > 0
                /\ Len(fp) <= 3
        mag  == 1000 * DigitsToNat(ip) + DigitsToNat(Pad3(fp))
    IN  IF good
        THEN [ok |-> TRUE, val |-> IF neg THEN 0 - mag ELSE mag]
        ELSE [ok |-> FALSE, val |-> 0]

\* round(x, 2) of a value in thousandths: the nearest hundredth; at a
\* decimal tie the binary value of the float decides, so either neighbour.
Round2(x) ==
    LET lo == (x \div 10) * 10
        r  == x - lo
    IN  IF r < 5 THEN {lo}
        ELSE IF r > 5 THEN {lo + 10}
        ELSE {lo, lo + 10}

\* `needle in str(e)`, on messages as sequences of phrases.
Contains(msg, needle) == \E k \in 1..Len(msg) : msg[k] = needle

\* The function f with every value computed once and kept.
Tabela(f) == f @@ f

(* --------------------------- request inputs --------------------------- *)

\* request.ano: the schema admits exactly four digits (line 23).
Anos == {<<"2", "0", "2", "5">>}

\* request.mes: absent, in range, out of range on both sides, and not a
\* number.
Meses == {Nada, <<"5">>, <<"0">>, <<"1", "3">>, <<"a", "b">>}

\* request.certificado_base64: text that is not base64, base64 of bytes
\* that are no PKCS#12 bundle, a bundle with key and certificate, and a
\* bundle that holds neither.
Certificados == {"nao_base64", "nao_pkcs12", "pfx", "pfx_vazio"}

\* request.senha_certificado; the bundles are encrypted under "certa".
Senhas == {"certa", "errada"}

Requests ==
    [certificado_base64 : Certificados, senha_certificado : Senhas,
     ano : Anos, mes : Meses]

(* ----------------------------- the portal ----------------------------- *)

\* A table row as processar_pagina sees it: whether it carries the
\* tb-gerada.svg icon, the text of its td-competencia cell and of its
\* td-valor cell (Nada when the cell is missing).
Linha(img, comp, valor) ==
    [img_gerada |-> img, td_competencia |-> comp, td_valor |-> valor]

C_05_2025 == <<"0", "5", "/", "2", "0", "2", "5">>
C_03_2025 == <<" ", "0", "3", "/", "2", "0", "2", "5", " ">>
C_12_2024 == <<"1", "2", "/", "2", "0", "2", "4">>
C_01_2026 == <<"0", "1", "/", "2", "0", "2", "6">>

V_1234_56 == <<"1", ".", "2", "3", "4", ",", "5", "6">>
V_NEG     == <<"-", "5", "0", ",", "0", "0", "4">>
V_12_5    == <<"1", "2", ",", "5">>
V_RUIM    == <<"R", "$", " ", "1", "0">>

\* The rows the portal's pages are made of, by name.
LinhaDe ==
    [ mes05        |-> Linha(TRUE,  C_05_2025, V_1234_56), \* filter year
      mes03        |-> Linha(TRUE,  C_03_2025, V_NEG),     \* filter year, negative
      antiga       |-> Linha(TRUE,  C_12_2024, V_12_5),    \* older year, issued
      nao_gerada   |-> Linha(FALSE, C_12_2024, V_12_5),    \* older year, not issued
      futura       |-> Linha(TRUE,  C_01_2026, V_12_5),    \* newer year
      valor_ruim   |-> Linha(TRUE,  C_05_2025, V_RUIM),    \* amount is no number
      sem_valor    |-> Linha(TRUE,  C_05_2025, Nada),      \* no td-valor cell
      sem_competencia |-> Linha(TRUE, Nada,    V_12_5) ]   \* no td-competencia cell

\* A table body is a sequence of these names.
Linhas == DOMAIN LinhaDe

\* The div.paginacao of a page: absent; present without an a[title=Proxima];
\* with one whose href is a javascript: placeholder; with one whose href is
\* a real URL.
Paginacoes == {"ausente", "sem_link", "javascript", "url"}

\* soup: whether a tbody exists, its tr rows (by name), and the pagination
\* element.
Soups ==
    { [tbody |-> tb, linhas |-> ls, paginacao |-> pg] :
        tb \in {TRUE}, pg \in Paginacoes,
        ls \in UNION {[1..n -> Linhas] : n \in 0..MaxRows} }
    \cup
    { [tbody |-> FALSE, linhas |-> <<>>, paginacao |-> pg] : pg \in Paginacoes }

SoupVazia == [tbody |-> FALSE, linhas |-> <<>>, paginacao |-> "ausente"]

\* What session.get answers for a listing page: an exception (erro is its
\* class), or a response with a status and, when 200, a body.
FetchErrors == {"Timeout", "ConnectionError", "SSLError"}

\* Whether a page lets the loop go on: page MaxPages is the listing's last.
TemProxima(soup) == soup.paginacao = "url"

PageResponses(pagina) ==
    { [erro |-> "", status_code |-> HTTP_OK, soup |-> sp] :
        sp \in {s \in Soups : pagina < MaxPages \/ ~TemProxima(s)} }
    \cup { [erro |-> "", status_code |-> 404, soup |-> SoupVazia] }
    \cup { [erro |-> e, status_code |-> 0, soup |-> SoupVazia] : e \in FetchErrors }

(* -------------------------- processar_pagina -------------------------- *)

\* Lines 162-163 for each row of the model: the competency text stripped
\* and searched for MM/YYYY.
CompetenciaLida ==
    Tabela([l \in Linhas |->
               re_search_competencia(Strip(LinhaDe[l].td_competencia))])

\* Lines 184-186 for each row of the model: the amount text stripped, its
\* points removed, its comma made a point, and the result given to float().
ValorLido ==
    Tabela([l \in Linhas |->
               py_float(ReplaceChar(RemoveChar(Strip(LinhaDe[l].td_valor), "."),
                                    ",", "."))])

\* int(ano_filtro) (lines 170, 174) for each year of the model.
AnoInt == Tabela([a \in Anos |-> py_int(a).val])

\* Lines 153-191 with `continue` where line 172 has `break`.
ProcessarLinha_sem_parada(nome, fat, notas, ano_filtro, mes_filtro) ==
    LET linha == LinhaDe[nome]
        skip  == [fat |-> fat, notas |-> notas, parar |-> FALSE]
        m     == CompetenciaLida[nome]
        valor == ValorLido[nome]
    IN  IF ~linha.img_gerada THEN skip
        ELSE IF linha.td_competencia = Nada THEN skip
        ELSE IF ~m.ok THEN skip
        ELSE IF DigitsToNat(m.ano) # AnoInt[ano_filtro] THEN skip
        ELSE IF mes_filtro # Nada /\ mes_filtro # <<>> /\ m.mes # mes_filtro
             THEN skip
        ELSE IF linha.td_valor = Nada THEN skip
        ELSE IF ~valor.ok THEN skip
        ELSE [fat |-> fat + valor.val, notas |-> notas + 1, parar |-> FALSE]

\* Lines 153-191 with the year tests (lines 170-175) before the icon test
\* (lines 154-156).
ProcessarLinha_ano_primeiro(nome, fat, notas, ano_filtro, mes_filtro) ==
    LET linha == LinhaDe[nome]
        skip  == [fat |-> fat, notas |-> notas, parar |-> FALSE]
        m     == CompetenciaLida[nome]
        valor == ValorLido[nome]
    IN  IF linha.td_competencia = Nada THEN skip
        ELSE IF ~m.ok THEN skip
        ELSE IF DigitsToNat(m.ano) < AnoInt[ano_filtro]
             THEN [fat |-> fat, notas |-> notas, parar |-> TRUE]
        ELSE IF DigitsToNat(m.ano) > AnoInt[ano_filtro] THEN skip
        ELSE IF ~linha.img_gerada THEN skip
        ELSE IF mes_filtro # Nada /\ mes_filtro # <<>> /\ m.mes # mes_filtro
             THEN skip
        ELSE IF linha.td_valor = Nada THEN skip
        ELSE IF ~valor.ok THEN skip
        ELSE [fat |-> fat + valor.val, notas |-> notas + 1, parar |-> FALSE]

\* Lines 153-191 with the month test (line 177) before the year tests
\* (lines 170-175).
ProcessarLinha_mes_primeiro(nome, fat, notas, ano_filtro, mes_filtro) ==
    LET linha == LinhaDe[nome]
        skip  == [fat |-> fat, notas |-> notas, parar |-> FALSE]
        m     == CompetenciaLida[nome]
        valor == ValorLido[nome]
    IN  IF ~linha.img_gerada THEN skip
        ELSE IF linha.td_competencia = Nada THEN skip
        ELSE IF ~m.ok THEN skip
        ELSE IF mes_filtro # Nada /\ mes_filtro # <<>> /\ m.mes # mes_filtro
             THEN skip
        ELSE IF DigitsToNat(m.ano) < AnoInt[ano_filtro]
             THEN [fat |-> fat, notas |-> notas, parar |-> TRUE]
        ELSE IF DigitsToNat(m.ano) > AnoInt[ano_filtro] THEN skip
        ELSE IF linha.td_valor = Nada THEN skip
        ELSE IF ~valor.ok THEN skip
        ELSE [fat |-> fat + valor.val, notas |-> notas + 1, parar |-> FALSE]

\* Lines 153-191 with the try around the for loop instead of inside it: an
\* exception in a row ends the scan.
ProcessarLinha_erro_para(nome, fat, notas, ano_filtro, mes_filtro) ==
    LET linha == LinhaDe[nome]
        skip  == [fat |-> fat, notas |-> notas, parar |-> FALSE]
        m     == CompetenciaLida[nome]
        valor == ValorLido[nome]
    IN  IF ~linha.img_gerada THEN skip
        ELSE IF linha.td_competencia = Nada THEN skip
        ELSE IF ~m.ok THEN skip
        ELSE IF DigitsToNat(m.ano) < AnoInt[ano_filtro]
             THEN [fat |-> fat, notas |-> notas, parar |-> TRUE]
        ELSE IF DigitsToNat(m.ano) > AnoInt[ano_filtro] THEN skip
        ELSE IF mes_filtro # Nada /\ mes_filtro # <<>> /\ m.mes # mes_filtro
             THEN skip
        ELSE IF linha.td_valor = Nada THEN skip
        ELSE IF ~valor.ok THEN [fat |-> fat, notas |-> notas, parar |-> TRUE]
        ELSE [fat |-> fat + valor.val, notas |-> notas + 1, parar |-> FALSE]

\* The body of `for linha in linhas` for one row (lines 153-191), given the
\* page totals so far: the new totals and whether the loop breaks.  An
\* exception inside the body is caught and skips the row.
ProcessarLinha(nome, fat, notas, ano_filtro, mes_filtro) ==
    LET linha == LinhaDe[nome]
        skip  == [fat |-> fat, notas |-> notas, parar |-> FALSE]
        m     == CompetenciaLida[nome]
        valor == ValorLido[nome]
    IN  IF ~linha.img_gerada THEN skip
        ELSE IF linha.td_competencia = Nada THEN skip
        ELSE IF ~m.ok THEN skip
        ELSE IF DigitsToNat(m.ano) < AnoInt[ano_filtro]
             THEN [fat |-> fat, notas |-> notas, parar |-> TRUE]
        ELSE IF DigitsToNat(m.ano) > AnoInt[ano_filtro] THEN skip
        ELSE IF mes_filtro # Nada /\ mes_filtro # <<>> /\ m.mes # mes_filtro
             THEN skip
        ELSE IF linha.td_valor = Nada THEN skip
        ELSE IF ~valor.ok THEN skip
        ELSE [fat |-> fat + valor.val, notas |-> notas + 1, parar |-> FALSE]

RECURSIVE ScanLinhas(_, _, _, _, _, _)
\* The for loop of processar_pagina from row k on (lines 152-193).
ScanLinhas(linhas, k, fat, notas, ano_filtro, mes_filtro) ==
    IF k > Len(linhas)
    THEN [faturamento |-> fat, notas |-> notas, continuar |-> TRUE]
    ELSE LET r == ProcessarLinha(linhas[k], fat, notas, ano_filtro, mes_filtro)
         IN  IF r.parar
             THEN [faturamento |-> r.fat, notas |-> r.notas, continuar |-> FALSE]
             ELSE ScanLinhas(linhas, k + 1, r.fat, r.notas, ano_filtro, mes_filtro)

\* Lines 138-193 with a table body without rows scanned like any other.
processar_pagina_vazia_continua(soup, ano_filtro, mes_filtro) ==
    IF ~soup.tbody
    THEN [faturamento |-> 0, notas |-> 0, continuar |-> FALSE]
    ELSE ScanLinhas(soup.linhas, 1, 0, 0, ano_filtro, mes_filtro)

\* processar_pagina(soup, ano_filtro, mes_filtro) (lines 138-193).
processar_pagina(soup, ano_filtro, mes_filtro) ==
    IF ~soup.tbody
    THEN [faturamento |-> 0, notas |-> 0, continuar |-> FALSE]
    ELSE IF soup.linhas = <<>>
    THEN [faturamento |-> 0, notas |-> 0, continuar |-> FALSE]
    ELSE ScanLinhas(soup.linhas, 1, 0, 0, ano_filtro, mes_filtro)

(* ------------------------ messages and literals ----------------------- *)

\* The phrase the handler looks for in str(e) (lines 122, 290).
FRASE_AUTH == "Autenticacao nao realizada"

\* "Autenticacao nao realizada. Favor inserir os dados corretamente de
\* acesso" (lines 48, 84, 113, 124).
MSG_AUTH == <<FRASE_AUTH, ". Favor inserir os dados corretamente de acesso">>

URL_LOGIN == "https://www.nfse.gov.br/EmissorNacional/Certificado"

URL_NOTAS == "https://www.nfse.gov.br/EmissorNacional/Notas/Emitidas"

\* Line 204 with the page parameter appended on every page.
UrlNotas_sempre_pg(pagina) == <<URL_NOTAS, "?pg=">> \o NatToDigits(pagina)

\* url_base if pagina == 1 else f"{url_base}?pg={pagina}" (line 204).
UrlNotas(pagina) ==
    IF pagina = 1 THEN <<URL_NOTAS>>
    ELSE <<URL_NOTAS, "?pg=">> \o NatToDigits(pagina)

SemExcecao == [tipo |-> "", msg |-> <<>>]

Excecao(tipo, msg) == [tipo |-> tipo, msg |-> msg]

\* str(e) of what session.get raises: a description by the HTTP library.
DescricaoErro(e) ==
    IF e = "Timeout" THEN <<"HTTPSConnectionPool: Read timed out.">>
    ELSE IF e = "ConnectionError" THEN <<"HTTPSConnectionPool: Max retries exceeded">>
    ELSE <<"HTTPSConnectionPool: SSLError">>

\* str(e) of HTTPException(status_code=400, detail="Mes invalido"): the
\* framework's versions print "400: Mes invalido" or nothing.
StrHTTPException == {<<"400: ", "Mes invalido">>, <<>>}

(* --------------------------- the file system -------------------------- *)

\* Names tempfile.mkdtemp() may return.
TempDirs == {"tmp_a"}

Dir(d) == <<d>>

\* os.path.join(temp_dir, name)
Join(d, name) == <<d, name>>

\* Which of the three deletions of a cleanup raises: none (0), os.remove of
\* cert.pem (1), os.remove of key.pem (2), os.rmdir (3).
Falhas == 0..3

\* os.remove(path) raises when the file is not there.
RemoveFalha(arqs, path) == path \notin arqs

\* os.rmdir(dir) raises when the directory is not there or is not empty.
RmdirFalha(arqs, d) ==
    \/ Dir(d) \notin arqs
    \/ \E q \in arqs : Len(q) = 2 /\ q[1] = d

\* The three deletions under one try / bare except (lines 107-112, 116-121):
\* the first one that raises ends the sequence.
RemoverMaterial(arqs, cert_path, key_path, d, falha) ==
    IF falha = 1 \/ RemoveFalha(arqs, cert_path) THEN arqs
    ELSE LET a1 == arqs \ {cert_path}
         IN  IF falha = 2 \/ RemoveFalha(a1, key_path) THEN a1
             ELSE LET a2 == a1 \ {key_path}
                  IN  IF falha = 3 \/ RmdirFalha(a2, d) THEN a2
                      ELSE a2 \ {Dir(d)}

\* Lines 107-112, 116-121 and 128-136 with the deletions outside any try:
\* the deletion that fails raises.
excecao_da_limpeza_propaga(falha) ==
    IF falha = 0 THEN <<>>
    ELSE [tipo |-> "OSError", msg |-> <<"No such file or directory">>]

\* What leaves the `try: ... except: pass` around the deletions (lines
\* 107-112, 116-121, 128-136) when deletion `falha` fails: no exception
\* (the empty tuple), whichever deletion it is.
excecao_da_limpeza(falha) == <<>>

SemSessao ==
    [existe |-> FALSE, cookies |-> {},
     temp_cert_path |-> Nada, temp_key_path |-> Nada, temp_dir |-> Nada]

\* limpar_arquivos_temporarios(session) (lines 126-136); hasattr is "the
\* attribute was set".
limpar_arquivos_temporarios(arqs, sess, falha) ==
    LET step1 == IF sess.temp_cert_path # Nada
                 THEN [ok |-> ~(falha = 1 \/ RemoveFalha(arqs, sess.temp_cert_path)),
                       a |-> arqs \ {sess.temp_cert_path}]
                 ELSE [ok |-> TRUE, a |-> arqs]
        step2 == IF sess.temp_key_path # Nada
                 THEN [ok |-> ~(falha = 2 \/ RemoveFalha(step1.a, sess.temp_key_path)),
                       a |-> step1.a \ {sess.temp_key_path}]
                 ELSE [ok |-> TRUE, a |-> step1.a]
        step3 == IF sess.temp_dir # Nada
                 THEN [ok |-> ~(falha = 3 \/ RmdirFalha(step2.a, sess.temp_dir[1])),
                       a |-> step2.a \ {sess.temp_dir}]
                 ELSE [ok |-> TRUE, a |-> step2.a]
    IN  IF ~step1.ok THEN arqs
        ELSE IF ~step2.ok THEN step1.a
        ELSE IF ~step3.ok THEN step2.a
        ELSE step3.a

(* ------------------------ the certificate bundle ---------------------- *)

\* base64.b64decode(certificado_base64) (line 38): raises on text that is
\* not base64.
b64decode(texto) ==
    IF texto = "nao_base64" THEN [ok |-> FALSE, dados |-> ""]
    ELSE [ok |-> TRUE, dados |-> texto]

\* pkcs12.load_key_and_certificates(cert_data, senha) (lines 41-45): raises
\* on bytes that are no bundle and on a wrong password; a bundle may hold no
\* key and no certificate, and then both are None.
load_key_and_certificates(dados, senha) ==
    IF dados = "nao_pkcs12" \/ senha # "certa"
    THEN [ok |-> FALSE, private_key |-> FALSE, certificate |-> FALSE]
    ELSE [ok |-> TRUE,
          private_key |-> (dados = "pfx"), certificate |-> (dados = "pfx")]

(* ------------------------------ the login ----------------------------- *)

D13 == <<"1", "2", "3", "4", "5", "6", "7", "8", "9", "0", "1", "2", "3">>

D14 == D13 \o <<"4">>

\* The li.dropdown.perfil of the login page: absent; present without the
\* "CNPJ:" label; present with the label and a digit string.
Perfis ==
    { [dropdown |-> FALSE, rotulo |-> FALSE, digitos |-> <<>>],
      [dropdown |-> TRUE,  rotulo |-> FALSE, digitos |-> D14],
      [dropdown |-> TRUE,  rotulo |-> TRUE,  digitos |-> D13],
      [dropdown |-> TRUE,  rotulo |-> TRUE,  digitos |-> D14] }

\* Lines 87-96 without the length test of line 95.
ExtrairCNPJ_sem_tamanho(perfil) ==
    IF perfil.dropdown /\ perfil.rotulo /\ perfil.digitos # <<>>
    THEN LET d == perfil.digitos
         IN  SubSeq(d, 1, 2) \o <<".">> \o SubSeq(d, 3, 5) \o <<".">>
             \o SubSeq(d, 6, 8) \o <<"/">> \o SubSeq(d, 9, 12) \o <<"-">>
             \o SubSeq(d, 13, Len(d))
    ELSE Nada

\* Lines 87-96: the digits after "CNPJ:" regrouped when there are 14.
ExtrairCNPJ(perfil) ==
    IF perfil.dropdown /\ perfil.rotulo /\ perfil.digitos # <<>>
       /\ Len(perfil.digitos) = CNPJ_LEN
    THEN LET d == perfil.digitos
         IN  SubSeq(d, 1, 2) \o <<".">> \o SubSeq(d, 3, 5) \o <<".">>
             \o SubSeq(d, 6, 8) \o <<"/">> \o SubSeq(d, 9, 12) \o <<"-">>
             \o SubSeq(d, 13, Len(d))
    ELSE Nada

LoginStatuses == {HTTP_OK, 403}

\* What session.get answers for the login URL: a page that sets the Emissor
\* cookie, a response of either status that sets none, or an exception.
LoginResponses ==
    { [erro |-> "", status_code |-> HTTP_OK, cookies |-> {"Emissor"},
       perfil |-> pf] : pf \in Perfis }
    \cup
    { [erro |-> "", status_code |-> st, cookies |-> {},
       perfil |-> [dropdown |-> FALSE, rotulo |-> FALSE, digitos |-> <<>>]] :
        st \in LoginStatuses }
    \cup
    { [erro |-> e, status_code |-> 0, cookies |-> {},
       perfil |-> [dropdown |-> FALSE, rotulo |-> FALSE, digitos |-> <<>>]] :
        e \in FetchErrors }

(* --------------------------- the month filter ------------------------- *)

\* Lines 252-257 without the range check of line 255.
validar_mes_sem_faixa(mes) ==
    IF mes = Nada \/ mes = <<>>
    THEN [erro |-> "", mes_filtro |-> Nada]
    ELSE LET mes_int == py_int(mes)
         IN  IF ~mes_int.ok THEN [erro |-> "ValueError", mes_filtro |-> Nada]
             ELSE [erro |-> "", mes_filtro |-> zfill2(mes_int.val)]

\* Lines 252-257: the month filter, or the exception raised.
validar_mes(mes) ==
    IF mes = Nada \/ mes = <<>>
    THEN [erro |-> "", mes_filtro |-> Nada]
    ELSE LET mes_int == py_int(mes)
         IN  IF ~mes_int.ok THEN [erro |-> "ValueError", mes_filtro |-> Nada]
             ELSE IF mes_int.val < 1 \/ mes_int.val > 12
             THEN [erro |-> "HTTPException", mes_filtro |-> Nada]
             ELSE [erro |-> "", mes_filtro |-> zfill2(mes_int.val)]

(* ------------------- what a page holds, row by row -------------------- *)

\* A row is eligible when it carries the issued icon and a MM/YYYY
\* competency.
Elegivel(l) ==
    /\ LinhaDe[l].img_gerada
    /\ LinhaDe[l].td_competencia # Nada
    /\ CompetenciaLida[l].ok

AnoDe(l) == DigitsToNat(CompetenciaLida[l].ano)

MesDe(l) == CompetenciaLida[l].mes

\* The index of the first eligible row older than the filter year, or one
\* past the last row.
PrimeiraAntiga(linhas, ano) ==
    LET ks == {k \in 1..Len(linhas) : Elegivel(linhas[k]) /\ AnoDe(linhas[k]) < ano}
    IN  IF ks = {} THEN Len(linhas) + 1 ELSE Min(ks)

\* The rows of the filter year (and month) before the first older row.
NoFiltro(linhas, ano, mes) ==
    {k \in 1..(PrimeiraAntiga(linhas, ano) - 1) :
        /\ Elegivel(linhas[k])
        /\ AnoDe(linhas[k]) = ano
        /\ (mes = Nada \/ MesDe(linhas[k]) = mes)}

ValorDe(l) == ValorLido[l]

\* Those of them whose amount cell is present and parses as a number.
ComValor(linhas, ano, mes) ==
    {k \in NoFiltro(linhas, ano, mes) :
        LinhaDe[linhas[k]].td_valor # Nada /\ ValorDe(linhas[k]).ok}

RECURSIVE SomaValores(_, _)
SomaValores(linhas, ks) ==
    IF ks = {} THEN 0
    ELSE LET k == Min(ks)
         IN  ValorDe(linhas[k]).val + SomaValores(linhas, ks \ {k})

\* What the rows of one table body hold, under a filter year and month:
\* the sum and number of the rows in the filter with a parsable amount, the
\* number of rows in the filter, whether one of the amounts summed is
\* negative, and whether no eligible row is older than the filter year.
Agregado(linhas, ano, mes) ==
    LET cv == ComValor(linhas, ano, mes)
    IN  [total     |-> SomaValores(linhas, cv),
         notas     |-> Cardinality(cv),
         no_filtro |-> Cardinality(NoFiltro(linhas, ano, mes)),
         negativo  |-> \E k \in cv : ValorDe(linhas[k]).val < 0,
         sem_antiga |-> PrimeiraAntiga(linhas, ano) > Len(linhas)]

\* The month filters a request can carry into the loop.
MesFiltros == {validar_mes(m).mes_filtro : m \in Meses}

CorposDeTabela == UNION {[1..n -> Linhas] : n \in 0..MaxRows}

\* Agregado for every table body, year and month filter of the model.
AgregadoDe ==
    Tabela([ls \in CorposDeTabela |->
        Tabela([a \in Anos |->
            Tabela([mf \in MesFiltros |-> Agregado(ls, AnoInt[a], mf)])])])

\* The parser's verdict read off the page: it goes on unless the table body
\* is absent or empty or an eligible row is older than the filter year.
PaginaContinua(soup, ano, mes) ==
    /\ soup.tbody
    /\ soup.linhas # <<>>
    /\ AgregadoDe[soup.linhas][ano][mes].sem_antiga

\* The halt conditions of the pagination for one response.
CondicaoDeParada(resp, ano, mes) ==
    \/ resp.status_code # HTTP_OK
    \/ ~PaginaContinua(resp.soup, ano, mes)
    \/ resp.soup.paginacao \in {"ausente", "sem_link"}
    \/ resp.soup.paginacao = "javascript"

\* The pages given to a call of processar_pagina that is followed row by
\* row, and the month filters it is called with (None, or two digits).
SoupsPagina ==
    { [tbody |-> TRUE, linhas |-> ls, paginacao |-> pg] :
        pg \in {"ausente", "url"},
        ls \in UNION {[1..n -> Linhas] : n \in 0..MaxLinhas} }
    \cup
    { [tbody |-> FALSE, linhas |-> <<>>, paginacao |-> pg] :
        pg \in {"ausente", "url"} }

MesFiltrosPagina == {Nada, <<"0", "5">>}

(* ------------------------------- state -------------------------------- *)

VARIABLES
    request,            \* the request body
    pc,                 \* where the handler is
    mes_filtro,         \* lines 252-257
    periodo, mes_label, \* lines 259-260
    identidade,         \* private_key, certificate (None is FALSE)
    temp_dir,           \* line 51
    fs,                 \* the paths that exist in the file system
    session,            \* the handler's `session` (line 248, 263)
    cnpj,               \* line 263, 268-269
    faturamento_total, notas_processadas, pagina, continuar,  \* buscar_notas
    exc,                \* the exception in flight
    outcome,            \* what the caller receives
    \* history, read by no action:
    netlog,             \* the URLs of the GETs issued, in order
    causa,              \* where the request failed
    login_resp,         \* the login response: status, cookie, CNPJ label
    halts,              \* per page answered: did a halt condition hold
    esperado,           \* the aggregate of the pages parsed, row by row
    ultima,             \* the last page answered
    chamadas,           \* calls made: b64decode, processar_pagina
    os_recusou          \* a deletion was refused by the operating system

\* One call of processar_pagina taken row by row, and the pass of
\* buscar_notas over what it returns.
VARIABLES
    pp_pc,              \* where the call is
    pp_soup,            \* processar_pagina's soup
    pp_ano_filtro,      \* its ano_filtro
    pp_mes_filtro,      \* its mes_filtro
    pp_linha,           \* the index of `linha` in `linhas` (line 152)
    faturamento_pagina, \* line 140
    notas_na_pagina,    \* line 141
    pp_continuar,       \* line 142
    pp_ret,             \* the tuple returned (lines 146, 150, 193)
    pp_passo            \* buscar_notas after the page (lines 210-226)

vars_pedido ==
    <<request, pc, mes_filtro, periodo, mes_label, identidade, temp_dir, fs,
      session, cnpj, faturamento_total, notas_processadas, pagina, continuar,
      exc, outcome, netlog, causa, login_resp, halts, esperado, ultima,
      chamadas, os_recusou>>

\* Requests handled at the same time, each in a thread of the server's
\* pool (the handler is a plain `def`), over one file system.
VARIABLES
    c_pc,               \* where each thread's request is
    c_temp_dir,         \* each thread's temp_dir (line 51)
    c_session,          \* each thread's session, with its temp_* attributes
    disco,              \* the paths that exist in the file system
    \* history, read by no action:
    dono,               \* for each directory that exists, who created it
    toques              \* who touched whose directory or files, and how

vars_conc == <<c_pc, c_temp_dir, c_session, disco, dono, toques>>

vars_pagina ==
    <<pp_pc, pp_soup, pp_ano_filtro, pp_mes_filtro, pp_linha,
      faturamento_pagina, notas_na_pagina, pp_continuar, pp_ret, pp_passo>>

\* What a request's handler never touches.
vars_outros == <<vars_pagina, vars_conc>>

vars == <<vars_pedido, vars_outros>>

locais_busca == <<faturamento_total, notas_processadas, pagina, continuar>>

historia_busca == <<halts, esperado, ultima>>

SemResposta ==
    [status |-> 0, detail |-> <<>>, CNPJ |-> Nada, Faturamento |-> 0,
     Notas_Encontradas |-> 0, Periodo |-> Nada, Mes |-> Nada]

\* No call of processar_pagina is being followed.
SemRetorno == [faturamento |-> 0, notas |-> 0, continuar |-> FALSE]

SemPasso ==
    [fat |-> 0, notas |-> 0, pagina |-> 0, continuar |-> FALSE, sair |-> FALSE]

PaginaParada ==
    /\ pp_pc = "parada"
    /\ pp_soup = SoupVazia
    /\ pp_ano_filtro = Nada
    /\ pp_mes_filtro = Nada
    /\ pp_linha = 0
    /\ faturamento_pagina = 0
    /\ notas_na_pagina = 0
    /\ pp_continuar = FALSE
    /\ pp_ret = SemRetorno
    /\ pp_passo = SemPasso

Threads == 1..MaxThreads

\* The names tempfile.mkdtemp() draws from when several requests run.
TempNomes == <<"tmp_a", "tmp_b", "tmp_c", "tmp_d">>

DirsConc == {TempNomes[i] : i \in 1..MaxThreads}

\* No request is in a thread.
ConcParado ==
    /\ c_pc = [t \in Threads |-> "parado"]
    /\ c_temp_dir = [t \in Threads |-> Nada]
    /\ c_session = [t \in Threads |-> SemSessao]
    /\ disco = {}
    /\ dono = [d \in DirsConc |-> 0]
    /\ toques = {}

\* The handler's state when a request arrives (inicio = "validar"), or when
\* none is being handled.
InitPedido(pedidos, inicio) ==
    /\ request \in pedidos
    /\ pc = inicio
    /\ mes_filtro = Nada
    /\ periodo = Nada
    /\ mes_label = Nada
    /\ identidade = [private_key |-> FALSE, certificate |-> FALSE]
    /\ temp_dir = Nada
    /\ fs = {}
    /\ session = SemSessao
    /\ cnpj = Nada
    /\ faturamento_total = 0
    /\ notas_processadas = 0
    /\ pagina = 0
    /\ continuar = FALSE
    /\ exc = SemExcecao
    /\ outcome = SemResposta
    /\ netlog = <<>>
    /\ causa = ""
    /\ login_resp = [feito |-> FALSE, status_code |-> 0, emissor |-> FALSE,
                     rotulo |-> FALSE, digitos |-> 0]
    /\ halts = <<>>
    /\ esperado = [total |-> 0, notas |-> 0, no_filtro |-> 0]
    /\ ultima = [status_code |-> 0, negativo |-> FALSE]
    /\ chamadas = [b64decode |-> 0, processar_pagina |-> 0]
    /\ os_recusou = FALSE

Init ==
    /\ InitPedido(Requests, "validar")
    /\ PaginaParada
    /\ ConcParado

\* raise: the exception travels to the handler's except clause (line 285).
Raise(e, porque) ==
    /\ exc' = e
    /\ causa' = porque
    /\ pc' = "excecao"

(* ------------------- obter_faturamento_certificado -------------------- *)

\* Lines 250-260.
ValidarMes ==
    /\ pc = "validar"
    /\ LET v == validar_mes(request.mes)
       IN  \/ /\ v.erro = ""
              /\ mes_filtro' = v.mes_filtro
              /\ periodo' = IF v.mes_filtro # Nada
                            THEN v.mes_filtro \o <<"/">> \o request.ano
                            ELSE request.ano
              /\ mes_label' = IF v.mes_filtro # Nada THEN v.mes_filtro
                              ELSE <<"Ano todo">>
              /\ pc' = "carregar"
              /\ UNCHANGED <<exc, causa>>
           \/ /\ v.erro = "ValueError"
              /\ Raise(Excecao("ValueError", <<"invalid literal for int()">>), "mes")
              /\ UNCHANGED <<mes_filtro, periodo, mes_label>>
           \/ /\ v.erro = "HTTPException"
              /\ \E m \in StrHTTPException :
                    Raise(Excecao("HTTPException", m), "mes")
              /\ UNCHANGED <<mes_filtro, periodo, mes_label>>
    /\ UNCHANGED vars_outros
    /\ UNCHANGED <<request, identidade, temp_dir, fs, session, cnpj,
                   locais_busca, outcome, netlog, login_resp, historia_busca,
                   chamadas, os_recusou>>

(* ---------------------- fazer_login_certificado ----------------------- *)

\* Lines 36-48: decode the base64 text and load the bundle; every failure
\* is raised anew as the one authentication message.
CarregarCertificado ==
    /\ pc = "carregar"
    /\ chamadas' = [chamadas EXCEPT !.b64decode = @ + 1]
    /\ LET cert_data == b64decode(request.certificado_base64)
           carga     == load_key_and_certificates(cert_data.dados,
                                                  request.senha_certificado)
       IN  IF ~cert_data.ok
           THEN /\ Raise(Excecao("Exception", MSG_AUTH), "base64")
                /\ UNCHANGED identidade
           ELSE IF ~carga.ok
           THEN /\ Raise(Excecao("Exception", MSG_AUTH),
                         IF cert_data.dados = "nao_pkcs12" THEN "pkcs12"
                         ELSE "senha")
                /\ UNCHANGED identidade
           ELSE /\ identidade' = [private_key |-> carga.private_key,
                                  certificate |-> carga.certificate]
                /\ pc' = "mkdtemp"
                /\ UNCHANGED <<exc, causa>>
    /\ UNCHANGED vars_outros
    /\ UNCHANGED <<request, mes_filtro, periodo, mes_label, temp_dir, fs,
                   session, cnpj, locais_busca, outcome, netlog, login_resp,
                   historia_busca, os_recusou>>

\* Lines 51-53: tempfile.mkdtemp() makes a new directory, or raises.
CriarDiretorio ==
    /\ pc = "mkdtemp"
    /\ \/ /\ \E d \in TempDirs :
                /\ Dir(d) \notin fs
                /\ temp_dir' = d
                /\ fs' = fs \cup {Dir(d)}
          /\ pc' = "salvar_cert"
          /\ UNCHANGED <<exc, causa>>
       \/ /\ Raise(Excecao("OSError", <<"No space left on device">>), "arquivo")
          /\ UNCHANGED <<temp_dir, fs>>
    /\ UNCHANGED vars_outros
    /\ UNCHANGED <<request, mes_filtro, periodo, mes_label, identidade,
                   session, cnpj, locais_busca, outcome, netlog, login_resp,
                   historia_busca, chamadas, os_recusou>>

\* `with open(path, 'wb') as f: f.write(obj.<bytes>())` (lines 56-57 and
\* 60-65): open may raise before the file exists; once it exists, taking
\* the bytes of None raises AttributeError and the write may raise OSError.
\* io is what the file system does: "ok", "open", "write".
SalvarPem(path, objeto, io, seguinte) ==
    IF io = "open"
    THEN /\ Raise(Excecao("OSError", <<"Permission denied">>), "arquivo")
         /\ UNCHANGED fs
    ELSE /\ fs' = fs \cup {path}
         /\ IF ~objeto
            THEN Raise(Excecao("AttributeError",
                               <<"'NoneType' object has no attribute">>),
                       "arquivo")
            ELSE IF io = "write"
            THEN Raise(Excecao("OSError", <<"No space left on device">>),
                       "arquivo")
            ELSE /\ pc' = seguinte
                 /\ UNCHANGED <<exc, causa>>

\* Lines 56-57.
SalvarCertificado ==
    /\ pc = "salvar_cert"
    /\ \E io \in {"ok", "open", "write"} :
          SalvarPem(Join(temp_dir, "cert.pem"), identidade.certificate, io,
                    "salvar_chave")
    /\ UNCHANGED vars_outros
    /\ UNCHANGED <<request, mes_filtro, periodo, mes_label, identidade,
                   temp_dir, session, cnpj, locais_busca, outcome, netlog,
                   login_resp, historia_busca, chamadas, os_recusou>>

\* Lines 60-65.
SalvarChave ==
    /\ pc = "salvar_chave"
    /\ \E io \in {"ok", "open", "write"} :
          SalvarPem(Join(temp_dir, "key.pem"), identidade.private_key, io,
                    "login")
    /\ UNCHANGED vars_outros
    /\ UNCHANGED <<request, mes_filtro, periodo, mes_label, identidade,
                   temp_dir, session, cnpj, locais_busca, outcome, netlog,
                   login_resp, historia_busca, chamadas, os_recusou>>

\* Lines 77-124 with the login judged by response.status_code instead of
\* the Emissor cookie.
login_certificado_por_status(resp) ==
    LET levantada ==
            IF resp.erro # "" THEN Excecao(resp.erro, DescricaoErro(resp.erro))
            ELSE IF resp.status_code # HTTP_OK
            THEN Excecao("Exception", MSG_AUTH)
            ELSE SemExcecao
    IN  IF levantada = SemExcecao
        THEN [causa |-> "", msg |-> <<>>, cnpj |-> ExtrairCNPJ(resp.perfil)]
        ELSE IF levantada.tipo = "SSLError"
        THEN [causa |-> "ssl", msg |-> MSG_AUTH, cnpj |-> Nada]
        ELSE [causa |-> IF resp.erro # "" THEN "rede" ELSE "cookie",
              msg |-> IF Contains(levantada.msg, FRASE_AUTH)
                      THEN levantada.msg ELSE MSG_AUTH,
              cnpj |-> Nada]

\* Lines 77-124 without the cookie test of lines 83-84.
login_certificado_sem_cookie(resp) ==
    LET levantada ==
            IF resp.erro # "" THEN Excecao(resp.erro, DescricaoErro(resp.erro))
            ELSE SemExcecao
    IN  IF levantada = SemExcecao
        THEN [causa |-> "", msg |-> <<>>, cnpj |-> ExtrairCNPJ(resp.perfil)]
        ELSE IF levantada.tipo = "SSLError"
        THEN [causa |-> "ssl", msg |-> MSG_AUTH, cnpj |-> Nada]
        ELSE [causa |-> "rede", msg |-> MSG_AUTH, cnpj |-> Nada]

\* Lines 77-124 for one answer of the portal: the exception the try block
\* raises, if any, and what the except clause that catches it raises in
\* turn.  causa is "" on a normal return.
login_certificado(resp) ==
    LET levantada ==
            IF resp.erro # "" THEN Excecao(resp.erro, DescricaoErro(resp.erro))
            ELSE IF "Emissor" \notin resp.cookies
            THEN Excecao("Exception", MSG_AUTH)
            ELSE SemExcecao
    IN  IF levantada = SemExcecao
        THEN [causa |-> "", msg |-> <<>>, cnpj |-> ExtrairCNPJ(resp.perfil)]
        ELSE IF levantada.tipo = "SSLError"
        THEN [causa |-> "ssl", msg |-> MSG_AUTH, cnpj |-> Nada]
        ELSE [causa |-> IF resp.erro # "" THEN "rede" ELSE "cookie",
              msg |-> IF Contains(levantada.msg, FRASE_AUTH)
                      THEN levantada.msg ELSE MSG_AUTH,
              cnpj |-> Nada]

\* Lines 68-124: the session, the login GET, the cookie check, the CNPJ and
\* the paths kept on the session; on failure the files are removed (best
\* effort) and the authentication message is raised.
Login ==
    /\ pc = "login"
    /\ \E resp \in LoginResponses, falha \in Falhas :
          LET r         == login_certificado(resp)
              cert_path == Join(temp_dir, "cert.pem")
              key_path  == Join(temp_dir, "key.pem")
          IN  /\ netlog' = Append(netlog, <<URL_LOGIN>>)
              /\ login_resp' = [feito |-> TRUE,
                                status_code |-> resp.status_code,
                                emissor |-> "Emissor" \in resp.cookies,
                                rotulo |-> resp.perfil.dropdown
                                           /\ resp.perfil.rotulo,
                                digitos |->
                                    IF resp.perfil.dropdown
                                       /\ resp.perfil.rotulo
                                    THEN Len(resp.perfil.digitos) ELSE 0]
              /\ os_recusou' = (os_recusou \/ falha # 0)
              /\ IF r.causa = ""
                 THEN /\ falha = 0
                      /\ session' = [existe |-> TRUE, cookies |-> resp.cookies,
                                     temp_cert_path |-> cert_path,
                                     temp_key_path |-> key_path,
                                     temp_dir |-> Dir(temp_dir)]
                      /\ cnpj' = r.cnpj
                      /\ pc' = "iniciar"
                      /\ UNCHANGED <<fs, exc, causa>>
                 ELSE /\ fs' = RemoverMaterial(fs, cert_path, key_path,
                                               temp_dir, falha)
                      /\ IF excecao_da_limpeza(falha) = <<>>
                         THEN Raise(Excecao("Exception", r.msg), r.causa)
                         ELSE Raise(excecao_da_limpeza(falha), r.causa)
                      /\ UNCHANGED <<session, cnpj>>
    /\ UNCHANGED vars_outros
    /\ UNCHANGED <<request, mes_filtro, periodo, mes_label, identidade,
                   temp_dir, locais_busca, outcome, historia_busca, chamadas>>

(* ---------------------------- buscar_notas ---------------------------- *)

\* Lines 268-269 and 197-201: the CNPJ sentinel and the loop's locals.
IniciarBusca ==
    /\ pc = "iniciar"
    /\ cnpj' = IF cnpj = Nada THEN <<"Nao identificado">> ELSE cnpj
    /\ faturamento_total' = 0
    /\ notas_processadas' = 0
    /\ pagina' = 1
    /\ continuar' = TRUE
    /\ pc' = "buscar"
    /\ UNCHANGED vars_outros
    /\ UNCHANGED <<request, mes_filtro, periodo, mes_label, identidade,
                   temp_dir, fs, session, exc, outcome, netlog, causa,
                   login_resp, historia_busca, chamadas, os_recusou>>

\* Lines 206-226 without the 'javascript:' test of line 223.
buscar_notas_passo_javascript(fat, notas, pag, resp, ano, mes) ==
    IF resp.status_code # HTTP_OK
    THEN [fat |-> fat, notas |-> notas, pagina |-> pag, continuar |-> TRUE,
          sair |-> TRUE]
    ELSE LET r == processar_pagina(resp.soup, ano, mes)
             f == fat + r.faturamento
             n == notas + r.notas
         IN  IF ~r.continuar
             THEN [fat |-> f, notas |-> n, pagina |-> pag,
                   continuar |-> FALSE, sair |-> TRUE]
             ELSE IF resp.soup.paginacao \in {"ausente", "sem_link"}
             THEN [fat |-> f, notas |-> n, pagina |-> pag,
                   continuar |-> TRUE, sair |-> TRUE]
             ELSE [fat |-> f, notas |-> n, pagina |-> pag + 1,
                   continuar |-> TRUE, sair |-> FALSE]

\* Lines 206-226 with a non-200 page discarding the totals.
buscar_notas_passo_zera(fat, notas, pag, resp, ano, mes) ==
    IF resp.status_code # HTTP_OK
    THEN [fat |-> 0, notas |-> 0, pagina |-> pag, continuar |-> TRUE,
          sair |-> TRUE]
    ELSE LET r == processar_pagina(resp.soup, ano, mes)
             f == fat + r.faturamento
             n == notas + r.notas
         IN  IF ~r.continuar
             THEN [fat |-> f, notas |-> n, pagina |-> pag,
                   continuar |-> FALSE, sair |-> TRUE]
             ELSE IF resp.soup.paginacao \in {"ausente", "sem_link", "javascript"}
             THEN [fat |-> f, notas |-> n, pagina |-> pag,
                   continuar |-> TRUE, sair |-> TRUE]
             ELSE [fat |-> f, notas |-> n, pagina |-> pag + 1,
                   continuar |-> TRUE, sair |-> FALSE]

\* Lines 206-226 with `continue` where line 207 has `break`: a page that is
\* not answered 200 is passed over and the next one is requested.
buscar_notas_passo_ignora_status(fat, notas, pag, resp, ano, mes) ==
    IF resp.status_code # HTTP_OK
    THEN [fat |-> fat, notas |-> notas, pagina |-> pag + 1, continuar |-> TRUE,
          sair |-> FALSE]
    ELSE LET r == processar_pagina(resp.soup, ano, mes)
             f == fat + r.faturamento
             n == notas + r.notas
         IN  IF ~r.continuar
             THEN [fat |-> f, notas |-> n, pagina |-> pag,
                   continuar |-> FALSE, sair |-> TRUE]
             ELSE IF resp.soup.paginacao \in {"ausente", "sem_link", "javascript"}
             THEN [fat |-> f, notas |-> n, pagina |-> pag,
                   continuar |-> TRUE, sair |-> TRUE]
             ELSE [fat |-> f, notas |-> n, pagina |-> pag + 1,
                   continuar |-> TRUE, sair |-> FALSE]

\* One pass of the while body after a response arrived (lines 206-226):
\* the new locals and whether the loop is left.
buscar_notas_passo(fat, notas, pag, resp, ano, mes) ==
    IF resp.status_code # HTTP_OK
    THEN [fat |-> fat, notas |-> notas, pagina |-> pag, continuar |-> TRUE,
          sair |-> TRUE]
    ELSE LET r == processar_pagina(resp.soup, ano, mes)
             f == fat + r.faturamento
             n == notas + r.notas
         IN  IF ~r.continuar
             THEN [fat |-> f, notas |-> n, pagina |-> pag,
                   continuar |-> FALSE, sair |-> TRUE]
             ELSE IF resp.soup.paginacao = "ausente"
             THEN [fat |-> f, notas |-> n, pagina |-> pag,
                   continuar |-> TRUE, sair |-> TRUE]
             ELSE IF resp.soup.paginacao = "sem_link"
                     \/ resp.soup.paginacao = "javascript"
             THEN [fat |-> f, notas |-> n, pagina |-> pag,
                   continuar |-> TRUE, sair |-> TRUE]
             ELSE [fat |-> f, notas |-> n, pagina |-> pag + 1,
                   continuar |-> TRUE, sair |-> FALSE]

\* What one more answered page adds to the history: whether a halt
\* condition held for it, and what its rows hold.
Observacao(resp, ano, mes) ==
    IF resp.status_code = HTTP_OK
    THEN [halt |-> CondicaoDeParada(resp, ano, mes), analisada |-> 1,
          ag |-> AgregadoDe[resp.soup.linhas][ano][mes]]
    ELSE [halt |-> CondicaoDeParada(resp, ano, mes), analisada |-> 0,
          ag |-> AgregadoDe[<<>>][ano][mes]]

\* One iteration of `while continuar` (lines 203-226): the GET of the
\* page, and either the exception it raises or the pass over its response.
\* The listing has no page beyond MaxPages; respostas is what the portal
\* may answer for this page.
BuscarPaginaDe(respostas) ==
    /\ pc = "buscar"
    /\ continuar
    /\ pagina <= MaxPages
    /\ \E resp \in respostas :
          /\ netlog' = Append(netlog, UrlNotas(pagina))
          /\ IF resp.erro # ""
             THEN /\ Raise(Excecao(resp.erro, DescricaoErro(resp.erro)), "pagina")
                  /\ UNCHANGED <<locais_busca, historia_busca, chamadas>>
             ELSE \E p \in {buscar_notas_passo(faturamento_total,
                                               notas_processadas, pagina, resp,
                                               request.ano, mes_filtro)},
                     o \in {Observacao(resp, request.ano, mes_filtro)} :
                      /\ faturamento_total' = p.fat
                      /\ notas_processadas' = p.notas
                      /\ pagina' = p.pagina
                      /\ continuar' = p.continuar
                      /\ pc' = IF p.sair THEN "limpar" ELSE "buscar"
                      /\ halts' = Append(halts, o.halt)
                      /\ esperado' =
                            [total     |-> esperado.total + o.ag.total,
                             notas     |-> esperado.notas + o.ag.notas,
                             no_filtro |-> esperado.no_filtro + o.ag.no_filtro]
                      /\ ultima' = [status_code |-> resp.status_code,
                                    negativo |-> o.ag.negativo]
                      /\ chamadas' = [chamadas EXCEPT
                                        !.processar_pagina = @ + o.analisada]
                      /\ UNCHANGED <<exc, causa>>
    /\ UNCHANGED vars_outros
    /\ UNCHANGED <<request, mes_filtro, periodo, mes_label, identidade,
                   temp_dir, fs, session, cnpj, outcome, login_resp, os_recusou>>

BuscarPagina == BuscarPaginaDe(PageResponses(pagina))

(* ------------------------- the handler's ends ------------------------- *)

\* Lines 275-283: the cleanup, and the response built from the totals.
LimparERetornar ==
    /\ pc = "limpar"
    /\ \E falha \in Falhas, fat \in Round2(faturamento_total) :
          /\ fs' = limpar_arquivos_temporarios(fs, session, falha)
          /\ os_recusou' = (os_recusou \/ falha # 0)
          /\ IF excecao_da_limpeza(falha) = <<>>
             THEN /\ outcome' = [status |-> HTTP_OK, detail |-> <<>>,
                                 CNPJ |-> cnpj, Faturamento |-> fat,
                                 Notas_Encontradas |-> notas_processadas,
                                 Periodo |-> periodo, Mes |-> mes_label]
                  /\ pc' = "fim"
                  /\ UNCHANGED <<exc, causa>>
             ELSE /\ Raise(excecao_da_limpeza(falha), causa)
                  /\ UNCHANGED outcome
    /\ UNCHANGED vars_outros
    /\ UNCHANGED <<request, mes_filtro, periodo, mes_label, identidade,
                   temp_dir, session, cnpj, locais_busca, netlog,
                   login_resp, historia_busca, chamadas>>

\* Lines 290-292 with every exception answered as an authentication failure.
mapear_excecao_401(e) == [status |-> STATUS_UNAUTHORIZED, detail |-> e.msg]

\* Lines 290-292: the status and detail an exception is answered with.
mapear_excecao(e) ==
    IF Contains(e.msg, FRASE_AUTH)
    THEN [status |-> STATUS_UNAUTHORIZED, detail |-> e.msg]
    ELSE [status |-> STATUS_SERVER_ERROR, detail |-> <<"Erro: ">> \o e.msg]

\* Lines 285-292: the cleanup when a session exists, and the HTTP error.
\* An exception that left the except clause itself would reach the
\* framework, which answers 500 "Internal Server Error".
TratarExcecao ==
    /\ pc = "excecao"
    /\ \E falha \in IF session.existe THEN Falhas ELSE {0} :
          /\ IF session.existe
             THEN /\ fs' = limpar_arquivos_temporarios(fs, session, falha)
                  /\ os_recusou' = (os_recusou \/ falha # 0)
             ELSE UNCHANGED <<fs, os_recusou>>
          /\ outcome' =
                IF excecao_da_limpeza(falha) = <<>>
                THEN [SemResposta EXCEPT
                        !.status = mapear_excecao(exc).status,
                        !.detail = mapear_excecao(exc).detail]
                ELSE [SemResposta EXCEPT
                        !.status = STATUS_SERVER_ERROR,
                        !.detail = <<"Internal Server Error">>]
    /\ pc' = "fim"
    /\ UNCHANGED vars_outros
    /\ UNCHANGED <<request, mes_filtro, periodo, mes_label, identidade,
                   temp_dir, session, cnpj, locais_busca, exc, netlog, causa,
                   login_resp, historia_busca, chamadas>>

Next ==
    \/ ValidarMes
    \/ CarregarCertificado
    \/ CriarDiretorio
    \/ SalvarCertificado
    \/ SalvarChave
    \/ Login
    \/ IniciarBusca
    \/ BuscarPagina
    \/ LimparERetornar
    \/ TratarExcecao

Spec == Init /\ [][Next]_vars

(* ------------------- the loop of buscar_notas, fairly ----------------- *)

\* Pages that differ in what the loop looks at only: the status, whether
\* the parser goes on (no row, a row of the filter year, an older row, a
\* newer row) and the pagination element.
RespostasDoLaco(pag) ==
    { [erro |-> "", status_code |-> HTTP_OK,
       soup |-> [tbody |-> TRUE, linhas |-> ls, paginacao |-> pg]] :
        ls \in {<<>>, <<"mes05">>, <<"antiga">>, <<"futura">>},
        pg \in {q \in Paginacoes : pag < MaxPages \/ q # "url"} }
    \cup { [erro |-> "", status_code |-> 404, soup |-> SoupVazia] }
    \cup { [erro |-> e, status_code |-> 0, soup |-> SoupVazia] : e \in FetchErrors }

BuscarNoLaco == BuscarPaginaDe(RespostasDoLaco(pagina))

NextLaco ==
    \/ ValidarMes
    \/ CarregarCertificado
    \/ CriarDiretorio
    \/ SalvarCertificado
    \/ SalvarChave
    \/ Login
    \/ IniciarBusca
    \/ BuscarNoLaco
    \/ LimparERetornar
    \/ TratarExcecao

\* The handler's thread keeps running: every session.get returns or raises
\* (timeout=30, lines 80 and 205), and nothing else in it waits.
SpecLaco == Init /\ [][NextLaco]_vars /\ WF_vars(NextLaco)

(* ------------------ processar_pagina, row by row ---------------------- *)

RequestParado ==
    [certificado_base64 |-> "pfx", senha_certificado |-> "certa",
     ano |-> <<"2", "0", "2", "5">>, mes |-> Nada]

\* A call processar_pagina(soup, ano_filtro, mes_filtro) at lines 140-142.
InitPagina ==
    /\ InitPedido({RequestParado}, "parado")
    /\ pp_pc = "tbody"
    /\ pp_soup \in SoupsPagina
    /\ pp_ano_filtro \in Anos
    /\ pp_mes_filtro \in MesFiltrosPagina
    /\ pp_linha = 0
    /\ faturamento_pagina = 0
    /\ notas_na_pagina = 0
    /\ pp_continuar = TRUE
    /\ pp_ret = SemRetorno
    /\ pp_passo = SemPasso
    /\ ConcParado

\* Lines 144-150: no tbody, or no tr in it, returns (0.0, 0, False).
AcharLinhas ==
    /\ pp_pc = "tbody"
    /\ IF ~pp_soup.tbody \/ pp_soup.linhas = <<>>
       THEN /\ pp_ret' = [faturamento |-> 0, notas |-> 0, continuar |-> FALSE]
            /\ pp_pc' = "retornou"
            /\ UNCHANGED pp_linha
       ELSE /\ pp_linha' = 1
            /\ pp_pc' = "for"
            /\ UNCHANGED pp_ret
    /\ UNCHANGED <<pp_soup, pp_ano_filtro, pp_mes_filtro, faturamento_pagina,
                   notas_na_pagina, pp_continuar, pp_passo>>
    /\ UNCHANGED <<vars_pedido, vars_conc>>

\* Lines 153-191: the body of the for loop for the row at pp_linha.
ProximaLinha ==
    /\ pp_pc = "for"
    /\ pp_linha <= Len(pp_soup.linhas)
    /\ \E r \in {ProcessarLinha(pp_soup.linhas[pp_linha], faturamento_pagina,
                                 notas_na_pagina, pp_ano_filtro,
                                 pp_mes_filtro)} :
          /\ faturamento_pagina' = r.fat
          /\ notas_na_pagina' = r.notas
          /\ IF r.parar
             THEN /\ pp_continuar' = FALSE
                  /\ pp_pc' = "return"
                  /\ UNCHANGED pp_linha
             ELSE /\ pp_linha' = pp_linha + 1
                  /\ UNCHANGED <<pp_continuar, pp_pc>>
    /\ UNCHANGED <<pp_soup, pp_ano_filtro, pp_mes_filtro, pp_ret, pp_passo>>
    /\ UNCHANGED <<vars_pedido, vars_conc>>

\* Line 193, after the break or after the last row.
Retornar ==
    /\ \/ pp_pc = "return"
       \/ pp_pc = "for" /\ pp_linha > Len(pp_soup.linhas)
    /\ pp_ret' = [faturamento |-> faturamento_pagina,
                  notas |-> notas_na_pagina, continuar |-> pp_continuar]
    /\ pp_pc' = "retornou"
    /\ UNCHANGED <<pp_soup, pp_ano_filtro, pp_mes_filtro, pp_linha,
                   faturamento_pagina, notas_na_pagina, pp_continuar,
                   pp_passo>>
    /\ UNCHANGED <<vars_pedido, vars_conc>>

\* Lines 209-226 for this page as page 1 of a listing, answered 200.
PassoDaBusca ==
    /\ pp_pc = "retornou"
    /\ pp_passo' = buscar_notas_passo(0, 0, 1,
                                      [erro |-> "", status_code |-> HTTP_OK,
                                       soup |-> pp_soup],
                                      pp_ano_filtro, pp_mes_filtro)
    /\ pp_pc' = "fim"
    /\ UNCHANGED <<pp_soup, pp_ano_filtro, pp_mes_filtro, pp_linha,
                   faturamento_pagina, notas_na_pagina, pp_continuar, pp_ret>>
    /\ UNCHANGED <<vars_pedido, vars_conc>>

NextPagina ==
    \/ AcharLinhas
    \/ ProximaLinha
    \/ Retornar
    \/ PassoDaBusca

SpecPagina == InitPagina /\ [][NextPagina]_vars

(* ------------------- requests handled concurrently ------------------- *)

\* tempfile.mkdtemp() with a fixed directory name, made if missing.
mkdtemp_fixo(arqs) == {TempNomes[1]}

\* tempfile.mkdtemp() (line 51): a directory name that does not exist.
mkdtemp(arqs) == {d \in DirsConc : Dir(d) \notin arqs}

\* The history of one touch by thread t of directory d or a file in it,
\* when the directory exists: whose it is, and whether another request's
\* directory exists at that moment.
Toque(t, op, d) ==
    IF dono[d] = 0 THEN {}
    ELSE {[quem |-> t, de |-> dono[d], op |-> op,
           outros |-> \E e \in DirsConc : dono[e] \notin {0, t}]}

\* The owners after the file system became arqs.
DonoApos(arqs) == [d \in DirsConc |-> IF Dir(d) \in arqs THEN dono[d] ELSE 0]

InitConc ==
    /\ InitPedido({RequestParado}, "parado")
    /\ PaginaParada
    /\ c_pc = [t \in Threads |-> "mkdtemp"]
    /\ c_temp_dir = [t \in Threads |-> Nada]
    /\ c_session = [t \in Threads |-> SemSessao]
    /\ disco = {}
    /\ dono = [d \in DirsConc |-> 0]
    /\ toques = {}

\* The request of thread t ends and its locals are gone.
Encerrar(t) ==
    /\ c_pc' = [c_pc EXCEPT ![t] = "fim"]
    /\ c_temp_dir' = [c_temp_dir EXCEPT ![t] = Nada]
    /\ c_session' = [c_session EXCEPT ![t] = SemSessao]

\* Lines 51-53 in thread t.
ThreadCriaDiretorio(t) ==
    /\ c_pc[t] = "mkdtemp"
    /\ \E d \in mkdtemp(disco) :
          /\ c_temp_dir' = [c_temp_dir EXCEPT ![t] = d]
          /\ disco' = disco \cup {Dir(d)}
          /\ dono' = IF Dir(d) \in disco THEN dono ELSE [dono EXCEPT ![d] = t]
          /\ toques' = toques \cup Toque(t, "cria", d)
    /\ c_pc' = [c_pc EXCEPT ![t] = "salvar_cert"]
    /\ UNCHANGED c_session
    /\ UNCHANGED <<vars_pedido, vars_pagina>>

\* Lines 56-57 (arquivo "cert.pem") and 60-65 ("key.pem") in thread t: the
\* file is written, or open/write raises and the request ends with no
\* cleanup (the handler's session is still None).
ThreadSalva(t, aqui, arquivo, seguinte) ==
    /\ c_pc[t] = aqui
    /\ \E io \in {"ok", "falha"} :
          IF io = "ok"
          THEN /\ disco' = disco \cup {Join(c_temp_dir[t], arquivo)}
               /\ toques' = toques \cup Toque(t, "escreve", c_temp_dir[t])
               /\ c_pc' = [c_pc EXCEPT ![t] = seguinte]
               /\ UNCHANGED <<c_temp_dir, c_session>>
          ELSE /\ Encerrar(t)
               /\ UNCHANGED <<disco, toques>>
    /\ UNCHANGED dono
    /\ UNCHANGED <<vars_pedido, vars_pagina>>

ThreadSalvaCertificado(t) ==
    ThreadSalva(t, "salvar_cert", "cert.pem", "salvar_chave")

ThreadSalvaChave(t) == ThreadSalva(t, "salvar_chave", "key.pem", "login")

\* Lines 68-124 in thread t: the login GET reads the two files named by
\* session.cert; on success the paths are kept on the session, on failure
\* the except clause deletes them and the request ends.
ThreadLogin(t) ==
    /\ c_pc[t] = "login"
    /\ LET d         == c_temp_dir[t]
           cert_path == Join(d, "cert.pem")
           key_path  == Join(d, "key.pem")
       IN  \E ok \in BOOLEAN, falha \in Falhas :
              IF ok
              THEN /\ falha = 0
                   /\ c_session' =
                         [c_session EXCEPT ![t] =
                            [existe |-> TRUE, cookies |-> {"Emissor"},
                             temp_cert_path |-> cert_path,
                             temp_key_path |-> key_path,
                             temp_dir |-> Dir(d)]]
                   /\ c_pc' = [c_pc EXCEPT ![t] = "buscar"]
                   /\ toques' = toques \cup Toque(t, "le", d)
                   /\ UNCHANGED <<c_temp_dir, disco, dono>>
              ELSE /\ disco' = RemoverMaterial(disco, cert_path, key_path, d,
                                               falha)
                   /\ dono' = DonoApos(disco')
                   /\ toques' = toques \cup Toque(t, "le", d)
                                       \cup Toque(t, "apaga", d)
                   /\ Encerrar(t)
    /\ UNCHANGED <<vars_pedido, vars_pagina>>

\* Lines 203-226 in thread t: the page GETs read the two files.
ThreadBusca(t) ==
    /\ c_pc[t] = "buscar"
    /\ toques' = toques \cup Toque(t, "le", c_session[t].temp_dir[1])
    /\ c_pc' = [c_pc EXCEPT ![t] = "limpar"]
    /\ UNCHANGED <<c_temp_dir, c_session, disco, dono>>
    /\ UNCHANGED <<vars_pedido, vars_pagina>>

\* Lines 275 and 288 in thread t: limpar_arquivos_temporarios(session).
ThreadLimpa(t) ==
    /\ c_pc[t] = "limpar"
    /\ \E falha \in Falhas :
          /\ disco' = limpar_arquivos_temporarios(disco, c_session[t], falha)
          /\ dono' = DonoApos(disco')
    /\ toques' = toques \cup Toque(t, "apaga", c_session[t].temp_dir[1])
    /\ Encerrar(t)
    /\ UNCHANGED <<vars_pedido, vars_pagina>>

NextConc ==
    \/ \E t \in Threads : ThreadCriaDiretorio(t)
    \/ \E t \in Threads : ThreadSalvaCertificado(t)
    \/ \E t \in Threads : ThreadSalvaChave(t)
    \/ \E t \in Threads : ThreadLogin(t)
    \/ \E t \in Threads : ThreadBusca(t)
    \/ \E t \in Threads : ThreadLimpa(t)

SpecConc == InitConc /\ [][NextConc]_vars

(* ------------------------------ properties ---------------------------- *)

Terminou == pc = "fim"

\* The listing pages requested so far (the first GET is the login).
PaginasPedidas == IF netlog = <<>> THEN 0 ELSE Len(netlog) - 1

\* The causes of a failure of the authentication step: text that is not
\* base64, bytes that are no PKCS#12 bundle, a wrong password, a TLS
\* handshake failure, another network failure of the login GET, and a
\* login response that sets no Emissor cookie.
CausasAuth == {"base64", "pkcs12", "senha", "ssl", "rede", "cookie"}

RespostaAuth ==
    [SemResposta EXCEPT !.status = STATUS_UNAUTHORIZED, !.detail = MSG_AUTH]

\* The request failed inside fazer_login_certificado for a reason that lies
\* in the bundle, the password, the handshake or the cookie: one of the
\* causes the except clauses name, or a bundle that holds no certificate or
\* no key (lines 57 and 60 then dereference None).
FalhaDeAutenticacao ==
    \/ causa \in CausasAuth
    \/ causa = "arquivo" /\ exc.tipo = "AttributeError"

\* int(request.mes) is an integer outside 1..12.
MesForaDaFaixa ==
    /\ request.mes # Nada
    /\ py_int(request.mes).ok
    /\ (py_int(request.mes).val < 1 \/ py_int(request.mes).val > 12)

\* C1: however the request ends, none of the temporary material (the
\* directory, cert.pem, key.pem) exists when control returns to the caller
\* (in every run in which the operating system refuses no deletion).
C1_MaterialRemovido == (Terminou /\ ~os_recusou) => fs = {}

\* C2: when the login response sets no Emissor cookie, whatever its status,
\* the request ends with 401 and the authentication message, and no listing
\* page was requested.
C2_SemCookie ==
    (login_resp.feito /\ login_resp.status_code # 0 /\ ~login_resp.emissor)
    => /\ PaginasPedidas = 0
       /\ pc \in {"excecao", "fim"}
       /\ Terminou => outcome = RespostaAuth

C2_Witness ==
    /\ Terminou
    /\ login_resp.feito /\ ~login_resp.emissor
    /\ login_resp.status_code = HTTP_OK
    /\ outcome.status = STATUS_UNAUTHORIZED

\* C3: every failure of the authentication step (fazer_login_certificado)
\* that the submitted bundle, the password, the TLS handshake or the missing
\* cookie causes is answered with the same response: status 401 and the one
\* authentication message.
C3_FalhaUniforme ==
    (Terminou /\ FalhaDeAutenticacao) => outcome = RespostaAuth

\* C4: page n+1 is requested if and only if no halt condition held for page
\* n (status other than 200, parser verdict continue=false, no paginacao
\* element with a Proxima link, or a javascript: href); after a page for
\* which one held, no further page is requested.
C4_Paginacao ==
    \A n \in 1..Len(halts) :
        /\ halts[n] => PaginasPedidas = n
        /\ ~halts[n] =>
              \/ PaginasPedidas > n
              \/ pc = "buscar" /\ continuar /\ pagina = n + 1

C4_Witness ==
    /\ Terminou
    /\ halts = <<FALSE, TRUE>>
    /\ PaginasPedidas = 2

\* C5 as stated: the result's count is the number of eligible rows of the
\* filter year (and month) before the first older eligible row, and its
\* total the sum of their amounts.
C5_Original ==
    (Terminou /\ outcome.status = HTTP_OK)
    => /\ outcome.Notas_Encontradas = esperado.no_filtro
       /\ outcome.Faturamento \in Round2(esperado.total)

\* C5 amended: the result's count is the number of eligible rows of the
\* filter year (and month) before the first older eligible row whose amount
\* cell is present and parses as a number, each counted once, and its total
\* is the sum of their amounts rounded to two decimals.
C5_Agregado ==
    (Terminou /\ outcome.status = HTTP_OK)
    => /\ outcome.Notas_Encontradas = esperado.notas
       /\ outcome.Faturamento \in Round2(esperado.total)

C5_Witness ==
    /\ Terminou
    /\ outcome.status = HTTP_OK
    /\ Len(halts) = 2
    /\ outcome.Notas_Encontradas = 3
    /\ esperado.no_filtro > esperado.notas

\* C6: a listing page answered with a status other than 200 does not fail
\* the request: it ends with a successful result that carries the total and
\* count of the pages parsed before it (zero and zero on page 1).
C6_Truncamento ==
    (ultima.status_code \notin {0, HTTP_OK})
    => /\ pc \in {"limpar", "fim"}
       /\ faturamento_total = esperado.total
       /\ notas_processadas = esperado.notas
       /\ Len(halts) = 1 => (faturamento_total = 0 /\ notas_processadas = 0)
       /\ Terminou =>
             /\ outcome.status = HTTP_OK
             /\ outcome.Faturamento \in Round2(esperado.total)
             /\ outcome.Notas_Encontradas = esperado.notas

C6_Witness ==
    /\ Terminou
    /\ ultima.status_code = 404
    /\ Len(halts) = 2
    /\ outcome.status = HTTP_OK
    /\ outcome.Notas_Encontradas = 2

\* C7: a request whose month is an integer outside 1..12 is rejected before
\* authentication: the bundle is never decoded, no temporary material is
\* created and no GET is issued.
C7_MesAntesDoLogin ==
    MesForaDaFaixa
    => /\ chamadas.b64decode = 0
       /\ temp_dir = Nada /\ fs = {}
       /\ netlog = <<>>
       /\ Terminou => outcome.status \notin {0, HTTP_OK}

C7_Witness ==
    /\ Terminou
    /\ MesForaDaFaixa
    /\ request.certificado_base64 = "pfx"
    /\ request.senha_certificado = "certa"
    /\ outcome.status >= 400

\* C8: a failure is answered with 401 or 500: an authentication failure with
\* 401, and a failure raised by a listing page's GET after a successful
\* login with 500 and "Erro: " followed by the failure's description, never
\* with 401 and never with a result.
C8_DoisStatus ==
    Terminou =>
        /\ causa # "" =>
              outcome.status \in {STATUS_UNAUTHORIZED, STATUS_SERVER_ERROR}
        /\ causa \in CausasAuth => outcome.status = STATUS_UNAUTHORIZED
        /\ causa = "pagina" =>
              /\ session.existe
              /\ outcome =
                    [SemResposta EXCEPT
                        !.status = STATUS_SERVER_ERROR,
                        !.detail = <<"Erro: ">> \o DescricaoErro(exc.tipo)]

C8_Witness ==
    /\ Terminou
    /\ causa = "pagina"
    /\ exc.tipo = "Timeout"
    /\ notas_processadas > 0
    /\ outcome.status = STATUS_SERVER_ERROR

\* C9: from one page iteration to the next the running total and
\* the running count never decrease.
C9_Original ==
    [][/\ faturamento_total' >= faturamento_total
       /\ notas_processadas' >= notas_processadas]_vars

\* C10: the login GET is issued at most once and first, the listing pages
\* are requested in the order 1, 2, ..., k, each once, page 1 by the bare
\* URL and page n > 1 with pg=n, and page n+1 only after page n was parsed.
C10_Sequencial ==
    /\ \A i \in 1..Len(netlog) :
          IF i = 1 THEN netlog[i] = <<URL_LOGIN>>
          ELSE IF i = 2 THEN netlog[i] = <<URL_NOTAS>>
          ELSE netlog[i] = <<URL_NOTAS, "?pg=">> \o NatToDigits(i - 1)
    /\ PaginasPedidas <= chamadas.processar_pagina + 1
    /\ pc = "buscar" => pagina = PaginasPedidas + 1

C10_Witness ==
    /\ Terminou
    /\ PaginasPedidas = 2
    /\ chamadas.processar_pagina = 2
    /\ netlog[3] = <<URL_NOTAS, "?pg=", "2">>

\* "12.345.678/9012-34"
CNPJ_FORMATADO ==
    <<"1", "2", ".", "3", "4", "5", ".", "6", "7", "8", "/",
      "9", "0", "1", "2", "-", "3", "4">>

\* C12: after a successful login the request does not fail for want of an
\* identifier, and a result carries the digits after "CNPJ:" regrouped as
\* NN.NNN.NNN/NNNN-NN exactly when the profile element holds the label
\* followed by 14 digits, and the sentinel in every other case.
C12_Identificador ==
    /\ (login_resp.feito /\ login_resp.emissor) => causa \in {"", "pagina"}
    /\ pc \in {"buscar", "limpar"} \/ (Terminou /\ outcome.status = HTTP_OK)
       => LET c == IF Terminou THEN outcome.CNPJ ELSE cnpj
          IN  IF login_resp.rotulo /\ login_resp.digitos = CNPJ_LEN
              THEN c = CNPJ_FORMATADO
              ELSE c = <<"Nao identificado">>

C12_Witness ==
    /\ Terminou
    /\ outcome.status = HTTP_OK
    /\ login_resp.rotulo
    /\ login_resp.digitos = CNPJ_LEN - 1
    /\ outcome.CNPJ = <<"Nao identificado">>

\* The table body, filter year and row of the call being followed.
LinhasDaPagina == pp_soup.linhas

AnoDaPagina == AnoInt[pp_ano_filtro]

NaLinha == pp_pc = "for" /\ pp_linha <= Len(LinhasDaPagina)

PaginaRetornou == pp_pc \in {"retornou", "fim"}

\* The row is left as it was found: totals and flag keep their values and
\* the loop moves to the next row.
LinhaSemEfeito ==
    /\ faturamento_pagina' = faturamento_pagina
    /\ notas_na_pagina' = notas_na_pagina
    /\ pp_continuar' = pp_continuar
    /\ pp_linha' = pp_linha + 1
    /\ pp_pc' = "for"

\* C13: when a page holds an eligible row older than the filter year, the
\* scan ends at the first such row with continue=false, and the page total
\* and count are those of the rows before it: no later row contributes.
C13_Parada ==
    (PaginaRetornou /\ PrimeiraAntiga(LinhasDaPagina, AnoDaPagina)
                          <= Len(LinhasDaPagina))
    => LET j     == PrimeiraAntiga(LinhasDaPagina, AnoDaPagina)
           antes == SubSeq(LinhasDaPagina, 1, j - 1)
           cv    == ComValor(antes, AnoDaPagina, pp_mes_filtro)
       IN  /\ pp_ret.continuar = FALSE
           /\ pp_linha = j
           /\ pp_ret.notas = Cardinality(cv)
           /\ pp_ret.faturamento = SomaValores(antes, cv)

C13_Witness ==
    /\ pp_pc = "fim"
    /\ LinhasDaPagina = <<"mes05", "antiga", "mes05">>
    /\ pp_mes_filtro = <<"0", "5">>
    /\ pp_ret = [faturamento |-> ValorLido["mes05"].val, notas |-> 1,
                 continuar |-> FALSE]

\* A row skipped for one of the three reasons of C14: no issued icon; a
\* year above the filter year; the filter year but another month than the
\* month filter.
Pulada(l, ano, mes) ==
    \/ ~LinhaDe[l].img_gerada
    \/ Elegivel(l) /\ AnoDe(l) > ano
    \/ Elegivel(l) /\ AnoDe(l) = ano /\ mes # Nada /\ MesDe(l) # mes

\* C14: the pass of the loop over a skipped row (no issued icon whatever
\* its year, a year above the filter year, or the filter year with another
\* month than the filter) changes neither the page total, nor the page
\* count, nor the continue flag, and the loop goes to the next row.
C14_Pulada ==
    [][(NaLinha /\ Pulada(LinhasDaPagina[pp_linha], AnoDaPagina,
                          pp_mes_filtro))
       => LinhaSemEfeito]_vars

C14_Witness ==
    /\ pp_pc = "fim"
    /\ LinhasDaPagina = <<"nao_gerada", "mes03", "mes05">>
    /\ pp_mes_filtro = <<"0", "5">>
    /\ pp_ret = [faturamento |-> ValorLido["mes05"].val, notas |-> 1,
                 continuar |-> TRUE]

\* A row in which the body of the loop raises: it carries the icon and has
\* no competency cell, or it is a row of the filter whose amount cell is
\* missing or holds no number.
ComErro(l, ano, mes) ==
    /\ LinhaDe[l].img_gerada
    /\ \/ LinhaDe[l].td_competencia = Nada
       \/ /\ Elegivel(l) /\ AnoDe(l) = ano
          /\ (mes = Nada \/ MesDe(l) = mes)
          /\ (LinhaDe[l].td_valor = Nada \/ ~ValorDe(l).ok)

\* C15: the pass of the loop over a row with a row-level error (competency
\* cell missing, amount cell missing, amount text that is no number) adds
\* nothing, leaves the continue flag alone and goes to the next row; the
\* page returns the count and sum of all its other rows in scope.
C15_ErroDeLinha ==
    [][/\ (NaLinha /\ ComErro(LinhasDaPagina[pp_linha], AnoDaPagina,
                               pp_mes_filtro))
          => LinhaSemEfeito
       /\ (pp_pc # "retornou" /\ pp_pc' = "retornou")
          => LET cv == ComValor(LinhasDaPagina, AnoDaPagina, pp_mes_filtro)
             IN  /\ pp_ret'.notas = Cardinality(cv)
                 /\ pp_ret'.faturamento = SomaValores(LinhasDaPagina, cv)]_vars

C15_Witness ==
    /\ pp_pc = "fim"
    /\ LinhasDaPagina = <<"mes05", "valor_ruim", "mes05">>
    /\ pp_ret = [faturamento |-> 2 * ValorLido["mes05"].val, notas |-> 2,
                 continuar |-> TRUE]

\* Every row of the page is passed over: none halts the scan and none is
\* counted.
TodasPuladas(linhas, ano, mes) ==
    /\ linhas # <<>>
    /\ PrimeiraAntiga(linhas, ano) > Len(linhas)
    /\ ComValor(linhas, ano, mes) = {}

\* C16: a page without table body or without rows yields zero, zero and
\* continue=false and the loop is left at that page even when it carries a
\* real next-page link; a page whose rows are all skipped yields
\* continue=true and, with a real next-page link, the next page is
\* requested.
C16_PaginaVazia ==
    pp_pc = "fim"
    => /\ (~pp_soup.tbody \/ LinhasDaPagina = <<>>)
          => /\ pp_ret = [faturamento |-> 0, notas |-> 0, continuar |-> FALSE]
             /\ pp_passo = [fat |-> 0, notas |-> 0, pagina |-> 1,
                            continuar |-> FALSE, sair |-> TRUE]
       /\ (pp_soup.tbody
           /\ TodasPuladas(LinhasDaPagina, AnoDaPagina, pp_mes_filtro))
          => /\ pp_ret = [faturamento |-> 0, notas |-> 0, continuar |-> TRUE]
             /\ pp_passo.continuar
             /\ pp_passo.fat = 0 /\ pp_passo.notas = 0
             /\ pp_soup.paginacao = "url"
                => (~pp_passo.sair /\ pp_passo.pagina = 2)

C16_Witness ==
    /\ pp_pc = "fim"
    /\ pp_soup.paginacao = "url"
    /\ LinhasDaPagina = <<"nao_gerada", "futura">>
    /\ pp_passo.pagina = 2

\* C17: when a deletion of the temporary material fails, whichever it is
\* and on whichever path, the request is answered as its history alone
\* decides: the result of the pages parsed, 401 with the authentication
\* message after a failed login, 500 with the description after a failed
\* page request.
C17_LimpezaSilenciosa ==
    (Terminou /\ os_recusou)
    => \/ /\ causa = ""
          /\ outcome.status = HTTP_OK
          /\ outcome.detail = <<>>
          /\ outcome.Notas_Encontradas = esperado.notas
          /\ outcome.Faturamento \in Round2(esperado.total)
       \/ /\ causa \in {"ssl", "rede", "cookie"}
          /\ outcome = RespostaAuth
       \/ /\ causa = "pagina"
          /\ outcome = [SemResposta EXCEPT
                          !.status = STATUS_SERVER_ERROR,
                          !.detail = <<"Erro: ">> \o DescricaoErro(exc.tipo)]

C17_Witness ==
    /\ Terminou
    /\ os_recusou
    /\ causa = "cookie"
    /\ Join(temp_dir, "key.pem") \in fs
    /\ outcome = RespostaAuth

\* C18: a request whose month is an integer below 1 or above 12 is answered
\* with status 400 and detail "Mes invalido".
C18_MesInvalido ==
    (Terminou /\ MesForaDaFaixa)
    => /\ outcome.status = STATUS_MES_INVALIDO
       /\ outcome.detail = <<"Mes invalido">>

\* A GET of a listing page is issued in this step.
PedePagina == Len(netlog') > Len(netlog) /\ Len(netlog) >= 1

\* C19: a listing page is requested only after the login GET was answered
\* with the Emissor cookie and while cert.pem and key.pem exist; none is
\* requested once the login has failed or the handler has cleaned up and
\* answered.
C19_PaginasNaSessao ==
    [][/\ PedePagina
          => /\ login_resp.feito /\ login_resp.emissor
             /\ session.existe
             /\ session.temp_cert_path \in fs
             /\ session.temp_key_path \in fs
       /\ pc \in {"excecao", "fim"} => netlog' = netlog]_vars

C19_Witness ==
    /\ Terminou
    /\ PaginasPedidas = 2
    /\ login_resp.emissor
    /\ fs = {}
    /\ outcome.Notas_Encontradas = 1

\* C20: when the listing has a page at which a halt condition holds (page
\* MaxPages at the latest), the loop of buscar_notas is left; when it is
\* left by a return, the page that halted it is the first page at which a
\* halt condition held and the last one requested, and the totals are the
\* cumulative ones of the pages parsed.
C20_Termina ==
    /\ [](pc = "limpar"
            => /\ PaginasPedidas = Len(halts)
               /\ \A n \in 1..Len(halts) : halts[n] <=> n = Len(halts)
               /\ faturamento_total = esperado.total
               /\ notas_processadas = esperado.notas)
    /\ (pc = "buscar") ~> (pc \in {"limpar", "excecao"})

C20_Witness ==
    /\ pc = "limpar"
    /\ halts = <<FALSE, TRUE>>
    /\ ultima.status_code = HTTP_OK
    /\ ~continuar
    /\ notas_processadas = 1

\* Thread t holds a temporary directory: it is between mkdtemp and the end
\* of its request.
EmVoo(t) ==
    c_pc[t] \in {"salvar_cert", "salvar_chave", "login", "buscar", "limpar"}

\* C11: under every interleaving of the requests, each one creates,
\* writes, reads and deletes only the directory it made and the files in
\* it, and two requests in flight never hold the same directory.
C11_MaterialProprio ==
    /\ \A x \in toques : x.de = x.quem
    /\ \A t \in Threads :
          EmVoo(t)
          => /\ dono[c_temp_dir[t]] = t
             /\ \A u \in Threads \ {t} :
                   EmVoo(u) => c_temp_dir[u] # c_temp_dir[t]

C11_Witness ==
    /\ c_pc[1] = "fim"
    /\ [quem |-> 1, de |-> 1, op |-> "apaga", outros |-> TRUE] \in toques
    /\ c_pc[2] = "limpar"
    /\ {c_session[2].temp_dir, c_session[2].temp_cert_path,
         c_session[2].temp_key_path} \subseteq disco
    /\ Cardinality(disco) = 3

=============================================================================
